---- MODULE Spec2Model ----
(***************************************************************************)
(* The crossword CSP engine of src/generate.py (class CrosswordCreator):   *)
(* node consistency, revise, AC-3, the assignment checker, the ordering    *)
(* heuristics and the backtracking search with inference and rollback.     *)
(*                                                                         *)
(* Words are sequences of letters; Python's 0-based index k of a word is   *)
(* Letter(word, k).  A Python set is a TLA+ set, and every iteration over  *)
(* a set whose order the code depends on is a nondeterministic choice of   *)
(* an order.  The value None and an optional value are the sets {} and     *)
(* {value}.  The recursion of backtrack is the explicit stack `stack`.     *)
(***************************************************************************)
EXTENDS Integers, Sequences, FiniteSets, TLC

VARIABLES
    crossword,   \* self.crossword: [variables, words]
    domains,     \* self.domains: variable -> set of words
    pc,          \* the position of the run
    queue,       \* the worklist of the running ac3
    stack,       \* the frames of the active backtrack calls, outermost first
    assignment,  \* the argument of the backtrack call being entered
    ac3_ret,     \* the value the last ac3 call returned
    result,      \* the value the last backtrack call returned
    ac3_work,    \* bookkeeping of the running ac3 call (not program state)
    preprocessed,\* the domains solve passed to backtrack (not program state)
    steps,       \* the number of steps solve() has taken (not program state)
    calls        \* the last calls made on the solver object (not program state)

vars == <<crossword, domains, pc, queue, stack, assignment, ac3_ret, result,
          ac3_work, preprocessed, steps, calls>>

(***************************************************************************)
(* Bounds of the model.                                                    *)
(***************************************************************************)
MaxWords == 4

MaxVariables == 3

\* the size of the vocabulary when single operations are called on any store
MaxStoreWords == 2

\* the length of the list of arcs when ac3(arcs) is called on its own
MaxArcs == 3

\* the size of the vocabulary when the two heuristics are called on their own
MaxHeuristicWords == 3

(***************************************************************************)
(* Values.                                                                 *)
(***************************************************************************)
None == {}

Some(value) == {value}

TheValue(opt) == CHOOSE value \in opt : TRUE

ACROSS == "across"

DOWN == "down"

Variable(i, j, direction, length) ==
    [i |-> i, j |-> j, direction |-> direction, length |-> length]

\* the cells a variable occupies, in letter order (0-based index k is Cells(v)[k+1])
Cells(variable) ==
    [n \in 1..variable.length |->
        <<variable.i + (IF variable.direction = DOWN THEN n - 1 ELSE 0),
          variable.j + (IF variable.direction = ACROSS THEN n - 1 ELSE 0)>>]

\* the 0-based position of a cell in a variable's cells (list.index)
IndexOf(cells, cell) == (CHOOSE n \in 1..Len(cells) : cells[n] = cell) - 1

CellSet(variable) == {Cells(variable)[n] : n \in 1..variable.length}

\* overlaps[(v1, v2)]: None, or Some(<<i, j>>): letter i of v1 is letter j of v2
Overlap(v1, v2) ==
    LET intersection == CellSet(v1) \cap CellSet(v2)
    IN  IF intersection = {} THEN None
        ELSE LET cell == CHOOSE c \in intersection : TRUE
             IN  Some(<<IndexOf(Cells(v1), cell), IndexOf(Cells(v2), cell)>>)

\* overlaps.get((x, y)): None also for a key the table does not hold (x = y)
OverlapsGet(x, y) == IF x = y THEN None ELSE Overlap(x, y)

Neighbors(cw, var) ==
    {v \in cw.variables : v # var /\ Overlap(v, var) # None}

(***************************************************************************)
(* The crossword models the solver is run on.                              *)
(***************************************************************************)
\* The slots of a grid are its maximal runs of at least two open cells.
A2 == Variable(0, 0, ACROSS, 2)

A3 == Variable(0, 0, ACROSS, 3)

B2 == Variable(1, 0, ACROSS, 2)

D2 == Variable(0, 0, DOWN, 2)

E2 == Variable(0, 1, DOWN, 2)

C2 == Variable(1, 1, ACROSS, 2)

F2 == Variable(0, 2, DOWN, 2)

Structures ==
    { {},                \* a grid without slots
      {A2},              \* "__"        one isolated slot
      {A2, D2},          \* "__" "_#"   two slots crossing at their first letters
      {A3, F2},          \* "___" "##_" slots of different lengths crossing at (2, 0)
      {A3, D2, F2},      \* "___" "_#_" one across slot crossed by two down slots
      {A2, E2, C2},      \* "__#" "#__" a chain: across, down, across
      {A2, B2, D2, E2} } \* "__" "__"   the full 2 x 2 grid

Vocabulary ==
    { <<"a", "a">>, <<"a", "b">>, <<"b", "a">>, <<"b", "c">>,
      <<"a", "b", "a">>, <<"a", "a", "b">> }

Crosswords ==
    { [variables |-> s, words |-> w] :
        s \in {t \in Structures : Cardinality(t) <= MaxVariables},
        w \in {u \in SUBSET Vocabulary : Cardinality(u) <= MaxWords} }

(***************************************************************************)
(* Helpers for orders of iteration.                                        *)
(***************************************************************************)
Range(seq) == {seq[n] : n \in 1..Len(seq)}

\* the orders in which a set can be iterated
Orders(S) ==
    {seq \in [1..Cardinality(S) -> S] : Range(seq) = S}

Letter(word, k) == word[k + 1]

InRange(word, k) == k >= 0 /\ k < Len(word)

\* An assignment is a Python dict: the sequence of its <<variable, word>>
\* items in insertion order, with at most one item for a variable.
EmptyAssignment == << >>

Keys(asg) == {asg[n][1] : n \in 1..Len(asg)}

Get(asg, var) == (CHOOSE n \in 1..Len(asg) : asg[n][1] = var)

ValueOf(asg, var) == asg[Get(asg, var)][2]

\* local_assignment = assignment.copy(); local_assignment[var] = value
Put(asg, var, value) ==
    IF var \in Keys(asg)
    THEN [asg EXCEPT ![Get(asg, var)] = <<var, value>>]
    ELSE Append(asg, <<var, value>>)

TotalSize(d) ==
    LET RECURSIVE Sum(_)
        Sum(S) == IF S = {} THEN 0
                  ELSE LET v == CHOOSE u \in S : TRUE
                       IN  Cardinality(d[v]) + Sum(S \ {v})
    IN  Sum(DOMAIN d)

(***************************************************************************)
(* enforce_node_consistency                                                *)
(***************************************************************************)
\* node consistency that removes only the words that are too short
enforce_node_consistency_short(cw, d) ==
    [var \in DOMAIN d |->
        d[var] \ {word \in d[var] : Len(word) < var.length}]

\* node consistency that removes only the words that are too long
enforce_node_consistency_long(cw, d) ==
    [var \in DOMAIN d |->
        d[var] \ {word \in d[var] : Len(word) > var.length}]

enforce_node_consistency(cw, d) ==
    [var \in DOMAIN d |->
        LET words_to_remove == {word \in d[var] : Len(word) # var.length}
        IN  d[var] \ words_to_remove]

(***************************************************************************)
(* revise                                                                  *)
(***************************************************************************)
\* word_x[xi] == word_y[yi], where both indices are in range
Match(word_x, xi, word_y, yi) ==
    /\ InRange(word_x, xi)
    /\ InRange(word_y, yi)
    /\ Letter(word_x, xi) = Letter(word_y, yi)

\* some order of iteration makes word_x[xi] or word_y[yi] raise IndexError
revise_raises(x, y, d) ==
    LET overlap == OverlapsGet(x, y)
    IN  /\ overlap # None
        /\ d[y] # {}
        /\ \E word_x \in d[x] :
              \/ ~InRange(word_x, TheValue(overlap)[1])
              \/ \E word_y \in d[y] : ~InRange(word_y, TheValue(overlap)[2])

\* revise with the two indices of the overlap taken in the wrong order
words_to_remove_swapped(x, y, d) ==
    LET overlap == OverlapsGet(x, y)
        xi == TheValue(overlap)[2]
        yi == TheValue(overlap)[1]
    IN  IF overlap = None THEN {}
        ELSE {word_x \in d[x] :
                 ~\E word_y \in d[y] : Match(word_x, xi, word_y, yi)}

words_to_remove(x, y, d) ==
    LET overlap == OverlapsGet(x, y)
        xi == TheValue(overlap)[1]
        yi == TheValue(overlap)[2]
    IN  IF overlap = None THEN {}
        ELSE {word_x \in d[x] :
                 ~\E word_y \in d[y] : Match(word_x, xi, word_y, yi)}

\* revise with `revised = True` set for every word of domain(x)
revised_any(x, y, d) == OverlapsGet(x, y) # None /\ d[x] # {}

\* the value revise returns
revised(x, y, d) == words_to_remove(x, y, d) # {}

\* revise emptying domain(x) as soon as one of its words has no support
revise_all(x, y, d) ==
    IF revised(x, y, d)
    THEN [d EXCEPT ![x] = {}]
    ELSE d

\* revise taking the words without support out of domain(y)
revise_target(x, y, d) ==
    IF revised(x, y, d)
    THEN [d EXCEPT ![y] = d[y] \ words_to_remove(x, y, d)]
    ELSE d

\* the domains revise leaves
revise(x, y, d) ==
    IF revised(x, y, d)
    THEN [d EXCEPT ![x] = d[x] \ words_to_remove(x, y, d)]
    ELSE d

(***************************************************************************)
(* ac3                                                                     *)
(***************************************************************************)
\* the arcs (var, neighbor) of one variable, in the orders neighbors(var)
\* can be iterated
ArcsOf(cw, var) ==
    {[n \in 1..Len(seq) |-> <<var, seq[n]>>] : seq \in Orders(Neighbors(cw, var))}

\* the arcs out of the variable, (var, neighbor), in place of the arcs into it
ArcsInto_reversed(cw, var, excluded) ==
    {[n \in 1..Len(seq) |-> <<var, seq[n]>>] :
        seq \in Orders(Neighbors(cw, var) \ excluded)}

\* the arcs into the variable without `if neighbor != y`
ArcsInto_all(cw, var, excluded) ==
    {[n \in 1..Len(seq) |-> <<seq[n], var>>] : seq \in Orders(Neighbors(cw, var))}

\* the arc into the variable from one neighbor only
ArcsInto_first(cw, var, excluded) ==
    {[n \in 1..Len(seq) |-> <<seq[n], var>>] :
        seq \in {IF all = << >> THEN all ELSE <<all[1]>> :
                    all \in Orders(Neighbors(cw, var) \ excluded)}}

\* the arcs (neighbor, var) into one variable, except from `excluded`
ArcsInto(cw, var, excluded) ==
    {[n \in 1..Len(seq) |-> <<seq[n], var>>] :
        seq \in Orders(Neighbors(cw, var) \ excluded)}

\* the queues ac3 can start with when arcs is None
RECURSIVE AllArcs(_, _)
AllArcs(cw, variables) ==
    IF variables = {} THEN {<< >>}
    ELSE UNION { {first \o rest : first \in ArcsOf(cw, var),
                                  rest \in AllArcs(cw, variables \ {var})} :
                 var \in variables }

\* does revise(x, y) raise on every order of iteration
revise_must_raise(x, y, d) ==
    LET overlap == OverlapsGet(x, y)
        xi == TheValue(overlap)[1]
        yi == TheValue(overlap)[2]
    IN  /\ overlap # None
        /\ d[y] # {}
        /\ \E word_x \in d[x] :
              \/ ~InRange(word_x, xi)
              \/ /\ \E word_y \in d[y] : ~InRange(word_y, yi)
                 /\ ~\E word_y \in d[y] : Match(word_x, xi, word_y, yi)

(***************************************************************************)
(* assignment_complete, consistent                                         *)
(***************************************************************************)
\* assignment_complete, off by one
assignment_complete_early(cw, asg) == Len(asg) >= Cardinality(cw.variables) - 1

assignment_complete(cw, asg) == Len(asg) = Cardinality(cw.variables)

\* The check of item n of consistent(asg), lines 184-197: {"next"} when the
\* loop goes on to the next item, otherwise the outcomes "False" and
\* "IndexError"; the loop over the neighbors of a variable stops at the first
\* neighbor that disagrees or whose word is too short, whichever comes first.
\* consistent without the check that no word is used twice
consistent_item_reuse(cw, asg, n, assigned_words) ==
    LET var == asg[n][1]
        word == asg[n][2]
        assigned == {neighbor \in Neighbors(cw, var) :
                        /\ neighbor \in Keys(asg)
                        /\ OverlapsGet(var, neighbor) # None}
        xi(neighbor) == TheValue(OverlapsGet(var, neighbor))[1]
        yi(neighbor) == TheValue(OverlapsGet(var, neighbor))[2]
        short == {neighbor \in assigned :
                     \/ ~InRange(word, xi(neighbor))
                     \/ ~InRange(ValueOf(asg, neighbor), yi(neighbor))}
        differ == {neighbor \in assigned \ short :
                     Letter(word, xi(neighbor)) #
                         Letter(ValueOf(asg, neighbor), yi(neighbor))}
    IN  IF Len(word) # var.length THEN {"False"}
        ELSE IF short = {} /\ differ = {} THEN {"next"}
        ELSE (IF short # {} THEN {"IndexError"} ELSE {})
             \cup (IF differ # {} THEN {"False"} ELSE {})

consistent_item(cw, asg, n, assigned_words) ==
    LET var == asg[n][1]
        word == asg[n][2]
        assigned == {neighbor \in Neighbors(cw, var) :
                        /\ neighbor \in Keys(asg)
                        /\ OverlapsGet(var, neighbor) # None}
        xi(neighbor) == TheValue(OverlapsGet(var, neighbor))[1]
        yi(neighbor) == TheValue(OverlapsGet(var, neighbor))[2]
        short == {neighbor \in assigned :
                     \/ ~InRange(word, xi(neighbor))
                     \/ ~InRange(ValueOf(asg, neighbor), yi(neighbor))}
        differ == {neighbor \in assigned \ short :
                     Letter(word, xi(neighbor)) #
                         Letter(ValueOf(asg, neighbor), yi(neighbor))}
    IN  IF word \in assigned_words THEN {"False"}
        ELSE IF Len(word) # var.length THEN {"False"}
        ELSE IF short = {} /\ differ = {} THEN {"next"}
        ELSE (IF short # {} THEN {"IndexError"} ELSE {})
             \cup (IF differ # {} THEN {"False"} ELSE {})

\* the outcomes of consistent(asg) from item n on: "True", "False", "IndexError"
RECURSIVE consistent_from(_, _, _, _)
consistent_from(cw, asg, n, assigned_words) ==
    IF n > Len(asg) THEN {"True"}
    ELSE (consistent_item(cw, asg, n, assigned_words) \ {"next"})
         \cup (IF "next" \in consistent_item(cw, asg, n, assigned_words)
               THEN consistent_from(cw, asg, n + 1,
                                    assigned_words \cup {asg[n][2]})
               ELSE {})

\* consistent checking only the item added last
consistent_last(cw, asg) ==
    IF asg = << >> THEN {"True"}
    ELSE consistent_from(cw, asg, Len(asg), {})

consistent(cw, asg) == consistent_from(cw, asg, 1, {})

(***************************************************************************)
(* order_domain_values                                                     *)
(***************************************************************************)
\* count_conflicts without `if neighbor in assignment: continue`
counted_neighbors_all(cw, var, asg) ==
    {neighbor \in Neighbors(cw, var) : OverlapsGet(var, neighbor) # None}

\* the neighbors count_conflicts goes over
counted_neighbors(cw, var, asg) ==
    {neighbor \in Neighbors(cw, var) :
        neighbor \notin Keys(asg) /\ OverlapsGet(var, neighbor) # None}

\* value[xi] != neighbor_word[yi] raises IndexError for some pair of words
order_raises(cw, var, asg, d) ==
    \E neighbor \in counted_neighbors(cw, var, asg) :
        \E value \in d[var], neighbor_word \in d[neighbor] :
            \/ ~InRange(value, TheValue(OverlapsGet(var, neighbor))[1])
            \/ ~InRange(neighbor_word, TheValue(OverlapsGet(var, neighbor))[2])

count_conflicts(cw, var, asg, d, value) ==
    LET conflicts(neighbor) ==
            LET xi == TheValue(OverlapsGet(var, neighbor))[1]
                yi == TheValue(OverlapsGet(var, neighbor))[2]
            IN  Cardinality({neighbor_word \in d[neighbor] :
                                ~Match(value, xi, neighbor_word, yi)})
        RECURSIVE Count(_)
        Count(S) == IF S = {} THEN 0
                    ELSE LET neighbor == CHOOSE u \in S : TRUE
                         IN  conflicts(neighbor) + Count(S \ {neighbor})
    IN  Count(counted_neighbors(cw, var, asg))

\* the lists sorted(self.domains[var], key=count_conflicts) can return: the
\* sort is stable, and the order of equal keys is the set's iteration order
order_domain_values(cw, var, asg, d) ==
    {seq \in Orders(d[var]) :
        \A m, n \in 1..Len(seq) :
            m < n => count_conflicts(cw, var, asg, d, seq[m])
                        <= count_conflicts(cw, var, asg, d, seq[n])}

(***************************************************************************)
(* select_unassigned_variable                                              *)
(***************************************************************************)
\* line 224 without `if v not in assignment`
unassigned_vars_all(cw, asg) == cw.variables

unassigned_vars(cw, asg) == {v \in cw.variables : v \notin Keys(asg)}

Min(S) == CHOOSE m \in S : \A n \in S : m <= n

Max(S) == CHOOSE m \in S : \A n \in S : m >= n

mrv_vars(cw, asg, d) ==
    LET min_domain_size ==
            Min({Cardinality(d[var]) : var \in unassigned_vars(cw, asg)})
    IN  {var \in unassigned_vars(cw, asg) : Cardinality(d[var]) = min_domain_size}

\* select_unassigned_variable returning any MRV variable
select_unassigned_variable_mrv(cw, asg, d) == mrv_vars(cw, asg, d)

\* the variables select_unassigned_variable can return: the single MRV
\* variable, or the first one of the largest degree in iteration order
select_unassigned_variable(cw, asg, d) ==
    LET degree(var) == Cardinality(Neighbors(cw, var))
        max_degree == Max({degree(var) : var \in mrv_vars(cw, asg, d)})
    IN  {var \in mrv_vars(cw, asg, d) : degree(var) = max_degree}

(***************************************************************************)
(* The run of solve().                                                     *)
(***************************************************************************)
Top == stack[Len(stack)]

SetTop(frame) == [stack EXCEPT ![Len(stack)] = frame]

Pop == SubSeq(stack, 1, Len(stack) - 1)

\* of one ac3 call: the total size of the domains and the length of the
\* queue when the loop starts, and the numbers of turns of the loop, of
\* revise calls that returned True and of arcs put back into the queue
Work(size, seeded) ==
    [size |-> size, seeded |-> seeded, turns |-> 0, revisions |-> 0,
     requeued |-> 0]

NoWork == Work(0, 0)

\* __init__: every domain is a copy of the vocabulary
Start(cw) ==
    /\ crossword = cw
    /\ domains = [var \in cw.variables |-> cw.words]
    /\ pc = "solve"
    /\ queue = << >>
    /\ stack = << >>
    /\ assignment = EmptyAssignment
    /\ ac3_ret = None
    /\ result = None
    /\ ac3_work = NoWork
    /\ preprocessed = None
    /\ steps = 0
    /\ calls = << >>

Init == \E cw \in Crosswords : Start(cw)

\* solve, line 98
EnforceNodeConsistency ==
    /\ pc = "solve"
    /\ domains' = enforce_node_consistency(crossword, domains)
    /\ pc' = "ac3_full"
    /\ UNCHANGED <<crossword, queue, stack, assignment, ac3_ret, result,
                   ac3_work, preprocessed, calls>>
    /\ steps' = steps + 1

\* solve, line 99: ac3() is entered with arcs = None and fills its queue
Ac3Full ==
    /\ pc = "ac3_full"
    /\ queue' \in AllArcs(crossword, crossword.variables)
    /\ ac3_work' = Work(TotalSize(domains), Len(queue'))
    /\ pc' = "ac3"
    /\ UNCHANGED <<crossword, domains, stack, assignment, ac3_ret, result, preprocessed, calls>>
    /\ steps' = steps + 1

\* ac3, lines 161-168: one turn of the loop
Ac3Step ==
    /\ pc = "ac3"
    /\ queue # << >>
    /\ LET x == Head(queue)[1]
           y == Head(queue)[2]
       IN  \/ /\ revise_raises(x, y, domains)
              /\ pc' = "raised"
              /\ UNCHANGED <<domains, queue, ac3_ret, ac3_work>>
           \/ /\ ~revise_must_raise(x, y, domains)
              /\ domains' = revise(x, y, domains)
              /\ IF revised(x, y, domains)
                 THEN IF domains'[x] = {}
                      THEN /\ ac3_ret' = Some(FALSE)
                           /\ pc' = "ac3_ret"
                           /\ queue' = Tail(queue)
                           /\ ac3_work' =
                                 [ac3_work EXCEPT !.turns = @ + 1,
                                                  !.revisions = @ + 1]
                      ELSE /\ \E arcs \in ArcsInto(crossword, x, {y}) :
                                /\ queue' = Tail(queue) \o arcs
                                /\ ac3_work' =
                                      [ac3_work EXCEPT
                                          !.turns = @ + 1,
                                          !.revisions = @ + 1,
                                          !.requeued = @ + Len(arcs)]
                           /\ pc' = "ac3"
                           /\ UNCHANGED ac3_ret
                 ELSE /\ queue' = Tail(queue)
                      /\ ac3_work' = [ac3_work EXCEPT !.turns = @ + 1]
                      /\ pc' = "ac3"
                      /\ UNCHANGED ac3_ret
    /\ UNCHANGED <<crossword, stack, assignment, result, preprocessed, calls>>
    /\ steps' = steps + 1

\* ac3, lines 161 and 169: the queue is empty
Ac3Exit ==
    /\ pc = "ac3"
    /\ queue = << >>
    /\ ac3_ret' = Some(TRUE)
    /\ pc' = "ac3_ret"
    /\ UNCHANGED <<crossword, domains, queue, stack, assignment, result,
                   ac3_work, preprocessed, calls>>
    /\ steps' = steps + 1

\* solve, line 100: the value of ac3() is dropped and backtrack(dict()) is called
SolveBacktrack ==
    /\ pc = "ac3_ret"
    /\ stack = << >>
    /\ assignment' = EmptyAssignment
    /\ preprocessed' = Some(domains)
    /\ pc' = "backtrack"
    /\ UNCHANGED <<crossword, domains, queue, stack, ac3_ret, result,
                   ac3_work, calls>>
    /\ steps' = steps + 1

Frame(asg, var, values, d) ==
    [assignment |-> asg, var |-> var, values |-> values,
     saved_domains |-> None, entry_domains |-> d]

\* backtrack, lines 244-248: return a complete assignment, or select a
\* variable and order its values
BacktrackEnter ==
    /\ pc = "backtrack"
    /\ IF assignment_complete(crossword, assignment)
       THEN /\ result' = Some(assignment)
            /\ pc' = "return"
            /\ UNCHANGED stack
       ELSE IF unassigned_vars(crossword, assignment) = {}
       THEN /\ pc' = "raised"
            /\ UNCHANGED <<stack, result>>
       ELSE \E var \in select_unassigned_variable(crossword, assignment, domains) :
              IF order_raises(crossword, var, assignment, domains)
              THEN /\ pc' = "raised"
                   /\ UNCHANGED <<stack, result>>
              ELSE \E values \in order_domain_values(crossword, var,
                                                     assignment, domains) :
                     /\ stack' = Append(stack,
                                        Frame(assignment, var, values, domains))
                     /\ pc' = "loop"
                     /\ UNCHANGED result
    /\ UNCHANGED <<crossword, domains, queue, assignment, ac3_ret, ac3_work, preprocessed, calls>>
    /\ steps' = steps + 1

\* backtrack, line 263: the value returned when no value of var succeeded
\* backtrack returning its partial assignment when every value failed
backtrack_failure_partial(asg) == Some(asg)

backtrack_failure(asg) == None

\* backtrack without `self.domains[var] = {value}`
TryValue_noforce ==
    /\ pc = "loop"
    /\ IF Top.values = << >>
       THEN /\ result' = backtrack_failure(Top.assignment)
            /\ stack' = Pop
            /\ pc' = "return"
            /\ UNCHANGED <<domains, queue, ac3_work>>
       ELSE LET var == Top.var
                value == Head(Top.values)
                local_assignment == Put(Top.assignment, var, value)
            IN  \E outcome \in consistent(crossword, local_assignment) :
                  CASE outcome = "True" ->
                         /\ stack' = SetTop([Top EXCEPT
                                                !.saved_domains = Some(domains)])
                         /\ domains' = domains
                         /\ queue' \in ArcsInto(crossword, var, {})
                         /\ ac3_work' = Work(TotalSize(domains'), Len(queue'))
                         /\ pc' = "ac3"
                         /\ UNCHANGED result
                    [] outcome = "False" ->
                         /\ stack' = SetTop([Top EXCEPT !.values = Tail(@)])
                         /\ pc' = "loop"
                         /\ UNCHANGED <<domains, queue, result, ac3_work>>
                    [] OTHER ->
                         /\ pc' = "raised"
                         /\ UNCHANGED <<domains, queue, stack, result, ac3_work>>
    /\ UNCHANGED <<crossword, assignment, ac3_ret, preprocessed, calls>>
    /\ steps' = steps + 1

\* backtrack, lines 248-257 and 263: the next value of the loop, up to the
\* call of ac3 on the arcs into var, or the end of the loop
TryValue ==
    /\ pc = "loop"
    /\ IF Top.values = << >>
       THEN /\ result' = backtrack_failure(Top.assignment)
            /\ stack' = Pop
            /\ pc' = "return"
            /\ UNCHANGED <<domains, queue, ac3_work>>
       ELSE LET var == Top.var
                value == Head(Top.values)
                local_assignment == Put(Top.assignment, var, value)
            IN  \E outcome \in consistent(crossword, local_assignment) :
                  CASE outcome = "True" ->
                         /\ stack' = SetTop([Top EXCEPT
                                                !.saved_domains = Some(domains)])
                         /\ domains' = [domains EXCEPT ![var] = {value}]
                         /\ queue' \in ArcsInto(crossword, var, {})
                         /\ ac3_work' = Work(TotalSize(domains'), Len(queue'))
                         /\ pc' = "ac3"
                         /\ UNCHANGED result
                    [] outcome = "False" ->
                         /\ stack' = SetTop([Top EXCEPT !.values = Tail(@)])
                         /\ pc' = "loop"
                         /\ UNCHANGED <<domains, queue, result, ac3_work>>
                    [] OTHER ->
                         /\ pc' = "raised"
                         /\ UNCHANGED <<domains, queue, stack, result, ac3_work>>
    /\ UNCHANGED <<crossword, assignment, ac3_ret, preprocessed, calls>>
    /\ steps' = steps + 1

\* backtrack, lines 257-258 and 262: ac3 returned to the loop
Inference ==
    /\ pc = "ac3_ret"
    /\ stack # << >>
    /\ IF TheValue(ac3_ret)
       THEN /\ assignment' = Put(Top.assignment, Top.var, Head(Top.values))
            /\ pc' = "backtrack"
            /\ UNCHANGED <<domains, stack>>
       ELSE /\ domains' = TheValue(Top.saved_domains)
            /\ stack' = SetTop([Top EXCEPT !.values = Tail(@)])
            /\ pc' = "loop"
            /\ UNCHANGED assignment
    /\ UNCHANGED <<crossword, queue, ac3_ret, result, ac3_work, preprocessed, calls>>
    /\ steps' = steps + 1

\* `if result:` taken as false for every value
Truthy_never(res) == FALSE

\* `if result:` is false for None and for an empty dict
Truthy(res) == res # None /\ TheValue(res) # EmptyAssignment

\* backtrack going on to the next value after a failed recursive call
\* without `self.domains = saved_domains`
Return_norestore ==
    /\ pc = "return"
    /\ stack # << >>
    /\ IF Truthy(result)
       THEN /\ stack' = Pop
            /\ pc' = "return"
            /\ UNCHANGED <<domains, result>>
       ELSE /\ stack' = SetTop([Top EXCEPT !.values = Tail(@)])
            /\ pc' = "loop"
            /\ UNCHANGED <<domains, result>>
    /\ UNCHANGED <<crossword, queue, assignment, ac3_ret, ac3_work, preprocessed, calls>>
    /\ steps' = steps + 1

\* backtrack, lines 258-262: the recursive call returned to the loop
Return ==
    /\ pc = "return"
    /\ stack # << >>
    /\ IF Truthy(result)
       THEN /\ stack' = Pop
            /\ pc' = "return"
            /\ UNCHANGED <<domains, result>>
       ELSE /\ domains' = TheValue(Top.saved_domains)
            /\ stack' = SetTop([Top EXCEPT !.values = Tail(@)])
            /\ pc' = "loop"
            /\ UNCHANGED result
    /\ UNCHANGED <<crossword, queue, assignment, ac3_ret, ac3_work, preprocessed, calls>>
    /\ steps' = steps + 1

\* solve, line 100: backtrack(dict()) returned, and solve returns its value
SolveReturn ==
    /\ pc = "return"
    /\ stack = << >>
    /\ pc' = "done"
    /\ UNCHANGED <<crossword, domains, queue, stack, assignment, ac3_ret,
                   result, ac3_work, preprocessed, calls>>
    /\ steps' = steps + 1

Next ==
    \/ EnforceNodeConsistency
    \/ Ac3Full
    \/ Ac3Step
    \/ Ac3Exit
    \/ SolveBacktrack
    \/ BacktrackEnter
    \/ TryValue
    \/ Inference
    \/ Return
    \/ SolveReturn

Spec == Init /\ [][Next]_vars

(***************************************************************************)
(* ac3(arcs) called on its own, on the domains solve() has after node      *)
(* consistency, with any list of at most MaxArcs different arcs or with    *)
(* arcs = None.  The crosswords are those of the run of solve() and one    *)
(* more: a slot of seven letters crossed by four slots of two letters,     *)
(* "_______" over "_#_#_#_".                                                *)
(***************************************************************************)
A7 == Variable(0, 0, ACROSS, 7)

H2 == Variable(0, 4, DOWN, 2)

K2 == Variable(0, 6, DOWN, 2)

WideCrossword ==
    [variables |-> {A7, D2, F2, H2, K2},
     words |-> { <<"a", "b">>,
                 <<"b", "a", "a", "a", "a", "a", "a">>,
                 <<"a", "a", "b", "a", "a", "a", "a">>,
                 <<"a", "a", "a", "a", "b", "a", "a">>,
                 <<"a", "a", "a", "a", "a", "a", "a">> }]

Arcs(cw) ==
    {arc \in cw.variables \X cw.variables : arc[2] \in Neighbors(cw, arc[1])}

\* the lists of at most n different arcs
ArcLists(cw, n) ==
    UNION { {seq \in [1..k -> Arcs(cw)] :
                \A i, j \in 1..k : seq[i] = seq[j] => i = j} : k \in 0..n }

Ac3Init ==
    \E cw \in Crosswords \cup {WideCrossword} :
        /\ crossword = cw
        /\ domains = enforce_node_consistency(cw, [var \in cw.variables |-> cw.words])
        /\ pc = "ac3"
        /\ \/ queue \in ArcLists(cw, MaxArcs)
           \/ cw \in Crosswords /\ queue \in AllArcs(cw, cw.variables)
        /\ stack = << >>
        /\ assignment = EmptyAssignment
        /\ ac3_ret = None
        /\ result = None
        /\ ac3_work = Work(TotalSize(domains), Len(queue))
        /\ preprocessed = None
        /\ steps = 0
        /\ calls = << >>

Ac3Next ==
    \/ Ac3Step
    \/ Ac3Exit

Ac3Spec == Ac3Init /\ [][Ac3Next]_vars

(***************************************************************************)
(* The inference of backtrack on its own, lines 254-258: on any node- and  *)
(* arc-consistent domains, for any variable and any value of its domain,   *)
(* the snapshot, the forcing of domain(var) and ac3 on the arcs into var.  *)
(***************************************************************************)
InferenceInit ==
    \E cw \in Crosswords :
        \E d \in [cw.variables -> SUBSET cw.words] :
            /\ \A x \in cw.variables : d[x] \subseteq {w \in cw.words : Len(w) = x.length}
            /\ \A x \in cw.variables : \A y \in Neighbors(cw, x) :
                  words_to_remove(x, y, d) = {}
            /\ \E var \in cw.variables : \E value \in d[var] :
                  /\ crossword = cw
                  /\ domains = [d EXCEPT ![var] = {value}]
                  /\ pc = "ac3"
                  /\ queue \in ArcsInto(cw, var, {})
                  /\ stack = <<[Frame(EmptyAssignment, var, <<value>>, d)
                                   EXCEPT !.saved_domains = Some(d)]>>
                  /\ assignment = EmptyAssignment
                  /\ ac3_ret = None
                  /\ result = None
                  /\ ac3_work = Work(TotalSize(domains), Len(queue))
                  /\ preprocessed = Some(d)
                  /\ steps = 0
                  /\ calls = << >>

InferenceNext ==
    \/ Ac3Step
    \/ Ac3Exit
    \/ Inference

InferenceSpec == InferenceInit /\ [][InferenceNext]_vars

(***************************************************************************)
(* Single operations, called on a solver whose domain store is any store   *)
(* over its vocabulary.  `calls` holds the last call (the operation, its   *)
(* arguments, the domains before it and the value it returned) and, before *)
(* it, the call that preceded it, without its domains.                     *)
(***************************************************************************)
StoreStructures == { {A2, D2}, {A3, F2}, {A2, E2, C2} }

StoreVocabulary ==
    { <<"a", "a">>, <<"a", "b">>, <<"b", "c">>, <<"a", "b", "a">> }

StoreCrosswords ==
    { [variables |-> s, words |-> w] :
        s \in StoreStructures,
        w \in {u \in SUBSET StoreVocabulary : Cardinality(u) <= MaxStoreWords} }

Call(op, args, d, ret) == [op |-> op, args |-> args, before |-> d, ret |-> ret]

\* the call before the last one is kept without its domains
Earlier(call) == [call EXCEPT !.before = << >>]

Record(call) ==
    IF calls = << >> THEN <<call>>
    ELSE <<Earlier(calls[Len(calls)]), call>>

StoreInit ==
    /\ crossword \in StoreCrosswords
    /\ domains \in [crossword.variables -> SUBSET crossword.words]
    /\ pc = "call"
    /\ queue = << >>
    /\ stack = << >>
    /\ assignment = EmptyAssignment
    /\ ac3_ret = None
    /\ result = None
    /\ ac3_work = NoWork
    /\ preprocessed = None
    /\ steps = 0
    /\ calls = << >>

\* enforce_node_consistency()
CallEnforceNodeConsistency ==
    /\ pc = "call"
    /\ domains' = enforce_node_consistency(crossword, domains)
    /\ calls' = Record(Call("enforce_node_consistency", << >>, domains, None))
    /\ UNCHANGED <<crossword, pc, queue, stack, assignment, ac3_ret, result,
                   ac3_work, preprocessed>>
    /\ UNCHANGED steps

\* revise(x, y), for a key (x, y) of the overlap table
CallRevise ==
    /\ pc = "call"
    /\ \E x \in crossword.variables : \E y \in crossword.variables \ {x} :
          \/ /\ revise_raises(x, y, domains)
             /\ pc' = "raised"
             /\ calls' = Record(Call("revise", <<x, y>>, domains, None))
             /\ UNCHANGED domains
          \/ /\ ~revise_must_raise(x, y, domains)
             /\ domains' = revise(x, y, domains)
             /\ calls' = Record(Call("revise", <<x, y>>, domains,
                                     Some(revised(x, y, domains))))
             /\ UNCHANGED pc
    /\ UNCHANGED <<crossword, queue, stack, assignment, ac3_ret, result,
                   ac3_work, preprocessed>>
    /\ UNCHANGED steps

StoreNext ==
    \/ CallEnforceNodeConsistency
    \/ CallRevise

StoreSpec == StoreInit /\ [][StoreNext]_vars

(***************************************************************************)
(* consistent(assignment) called on its own, on a new solver and any dict  *)
(* from variables of the crossword to words of its vocabulary.             *)
(***************************************************************************)
\* the dicts with at most one item for a variable, in every insertion order
Assignments(cw) ==
    UNION { {asg \in [1..k -> cw.variables \X cw.words] :
                \A m, n \in 1..k : asg[m][1] = asg[n][1] => m = n} :
            k \in 0..Cardinality(cw.variables) }

ConsistentInit ==
    /\ crossword \in StoreCrosswords
    /\ domains = [var \in crossword.variables |-> crossword.words]
    /\ pc = "call"
    /\ queue = << >>
    /\ stack = << >>
    /\ assignment \in Assignments(crossword)
    /\ ac3_ret = None
    /\ result = None
    /\ ac3_work = NoWork
    /\ preprocessed = None
    /\ steps = 0
    /\ calls = << >>

\* consistent(assignment)
CallConsistent ==
    /\ pc = "call"
    /\ \E outcome \in consistent(crossword, assignment) :
          /\ calls' = <<Call("consistent", <<assignment>>, domains,
                             Some(outcome))>>
          /\ pc' = IF outcome = "IndexError" THEN "raised" ELSE "call"
    /\ UNCHANGED <<crossword, domains, queue, stack, assignment, ac3_ret,
                   result, ac3_work, preprocessed, steps>>

ConsistentSpec == ConsistentInit /\ [][CallConsistent]_vars

(***************************************************************************)
(* select_unassigned_variable and order_domain_values called on their own, *)
(* on any node-consistent domains.  Both read of the assignment only which *)
(* variables are its keys (lines 207 and 224), so one dict stands for each *)
(* set of keys.                                                            *)
(***************************************************************************)
HeuristicCrosswords ==
    { [variables |-> s, words |-> w] :
        s \in StoreStructures,
        w \in {u \in SUBSET StoreVocabulary :
                  Cardinality(u) <= MaxHeuristicWords} }

\* a dict with the given keys
RECURSIVE DictOf(_, _)
DictOf(cw, keys) ==
    IF keys = {} THEN EmptyAssignment
    ELSE LET var == CHOOSE v \in keys : TRUE
         IN  <<<<var, CHOOSE word \in cw.words : TRUE>>>>
                 \o DictOf(cw, keys \ {var})

HeuristicInit ==
    /\ crossword \in HeuristicCrosswords
    /\ domains \in [crossword.variables -> SUBSET crossword.words]
    /\ domains = enforce_node_consistency(crossword, domains)
    /\ pc = "call"
    /\ queue = << >>
    /\ stack = << >>
    /\ \E keys \in SUBSET crossword.variables :
          /\ crossword.words = {} => keys = {}
          /\ assignment = DictOf(crossword, keys)
    /\ ac3_ret = None
    /\ result = None
    /\ ac3_work = NoWork
    /\ preprocessed = None
    /\ steps = 0
    /\ calls = << >>

\* select_unassigned_variable(assignment), as backtrack calls it at line 247
CallSelectUnassignedVariable ==
    /\ pc = "call"
    /\ ~assignment_complete(crossword, assignment)
    /\ \E var \in select_unassigned_variable(crossword, assignment, domains) :
          calls' = <<Call("select_unassigned_variable", <<assignment>>,
                          domains, Some(var))>>
    /\ UNCHANGED <<crossword, domains, pc, queue, stack, assignment, ac3_ret,
                   result, ac3_work, preprocessed, steps>>

\* order_domain_values(var, assignment), for a variable that is not assigned
CallOrderDomainValues ==
    /\ pc = "call"
    /\ \E var \in unassigned_vars(crossword, assignment) :
          IF order_raises(crossword, var, assignment, domains)
          THEN /\ pc' = "raised"
               /\ calls' = <<Call("order_domain_values", <<var, assignment>>,
                                  domains, None)>>
          ELSE /\ \E values \in order_domain_values(crossword, var,
                                                     assignment, domains) :
                     calls' = <<Call("order_domain_values",
                                     <<var, assignment>>, domains,
                                     Some(values))>>
               /\ UNCHANGED pc
    /\ UNCHANGED <<crossword, domains, queue, stack, assignment, ac3_ret,
                   result, ac3_work, preprocessed, steps>>

HeuristicNext ==
    \/ CallSelectUnassignedVariable
    \/ CallOrderDomainValues

HeuristicSpec == HeuristicInit /\ [][HeuristicNext]_vars

(***************************************************************************)
(* What a solution of a crossword is, stated without the code.             *)
(***************************************************************************)
Agree(x, word_x, y, word_y) ==
    \/ Overlap(x, y) = None
    \/ LET i == TheValue(Overlap(x, y))[1]
           j == TheValue(Overlap(x, y))[2]
       IN  InRange(word_x, i) /\ InRange(word_y, j)
           /\ Letter(word_x, i) = Letter(word_y, j)

\* asg maps every variable of cw to one word
IsComplete(cw, asg) ==
    /\ Keys(asg) = cw.variables
    /\ \A m, n \in 1..Len(asg) : asg[m][1] = asg[n][1] => m = n

\* no word twice, every word of its variable's length, neighbors agree
IsConsistent(cw, asg) ==
    /\ \A m, n \in 1..Len(asg) : asg[m][2] = asg[n][2] => m = n
    /\ \A n \in 1..Len(asg) : Len(asg[n][2]) = asg[n][1].length
    /\ \A m, n \in 1..Len(asg) :
          m # n => Agree(asg[m][1], asg[m][2], asg[n][1], asg[n][2])

\* some choice of one vocabulary word per variable is a solution
SolutionExists(cw) ==
    \E f \in [cw.variables -> cw.words] :
        /\ \A x, y \in cw.variables : f[x] = f[y] => x = y
        /\ \A x \in cw.variables : Len(f[x]) = x.length
        /\ \A x, y \in cw.variables : x # y => Agree(x, f[x], y, f[y])

NodeConsistentWords(cw, var) == {w \in cw.words : Len(w) = var.length}

(***************************************************************************)
(* Properties.                                                             *)
(***************************************************************************)

\* C1 (soundness): when solve() returns an assignment, it maps every variable
\* to a word, uses no word twice, gives every variable a word of its length,
\* and neighbors agree on the letter of their shared cell.
Soundness ==
    (pc = "done" /\ result # None) =>
        /\ IsComplete(crossword, TheValue(result))
        /\ IsConsistent(crossword, TheValue(result))

\* solve() returned an assignment of a grid of three crossing slots
SoundnessWitness ==
    /\ pc = "done"
    /\ result # None
    /\ Cardinality(crossword.variables) = 3

\* C2 (completeness): when some complete, consistent assignment exists,
\* solve() returns an assignment and not None.
Completeness ==
    (pc = "done" /\ SolutionExists(crossword)) => result # None

\* solve() found a solution although AC-3 had pruned node-consistent words
CompletenessWitness ==
    /\ pc = "done"
    /\ SolutionExists(crossword)
    /\ result # None
    /\ \E var \in crossword.variables :
          TheValue(preprocessed)[var] # NodeConsistentWords(crossword, var)

\* C3: when a variable has an empty domain after node consistency and the
\* initial AC-3 pass, solve() returns None.
EmptyDomainNoSolution ==
    (pc = "done" /\ \E var \in crossword.variables :
                       TheValue(preprocessed)[var] = {})
        => result = None

\* solve() returned None after an initial ac3() that had returned False
EmptyDomainWitness ==
    /\ pc = "done"
    /\ \E var \in crossword.variables : TheValue(preprocessed)[var] = {}
    /\ \E var \in crossword.variables : TheValue(preprocessed)[var] # {}
    /\ ac3_ret = Some(FALSE)
    /\ result = None

EmptyVocabulary == crossword.words = {} /\ crossword.variables # {}

\* C4 as stated: with an empty vocabulary the backtracking search is never
\* started, no variable is selected and no value is tried.
ScenarioDNoBacktracking ==
    EmptyVocabulary =>
        /\ pc \in {"solve", "ac3_full", "ac3", "ac3_ret", "done"}
        /\ stack = << >>

\* C4 amended: with an empty vocabulary every domain is empty, solve() calls
\* backtrack once, which selects a variable and finds no value to try (no
\* snapshot, no inference pass, no recursive call), and solve() returns None.
ScenarioDNoValueTried ==
    EmptyVocabulary =>
        /\ \A var \in crossword.variables : domains[var] = {}
        /\ Len(stack) <= 1
        /\ stack # << >> =>
              /\ Top.assignment = EmptyAssignment
              /\ Top.values = << >>
              /\ Top.saved_domains = None
        /\ pc = "ac3" => stack = << >>
        /\ pc = "backtrack" => assignment = EmptyAssignment
        /\ pc \in {"return", "done"} => result = None

\* solve() returned None on an empty vocabulary
ScenarioDWitness ==
    /\ EmptyVocabulary
    /\ pc = "done"
    /\ result = None

LastCall == calls[Len(calls)]

NodeConsistent(d) ==
    \A var \in DOMAIN d : \A word \in d[var] : Len(word) = var.length

\* C5: enforce_node_consistency() leaves in every domain exactly the words of
\* the previous domain whose length is the variable's length, and a second
\* call changes nothing.
NodeConsistencyExact ==
    (calls # << >> /\ LastCall.op = "enforce_node_consistency") =>
        /\ \A var \in crossword.variables :
              domains[var] =
                  {word \in LastCall.before[var] : Len(word) = var.length}
        /\ (Len(calls) = 2 /\ calls[1].op = "enforce_node_consistency")
              => domains = LastCall.before

\* enforce_node_consistency() removed a word from one domain and kept a word
\* in another
NodeConsistencyWitness ==
    /\ calls # << >>
    /\ LastCall.op = "enforce_node_consistency"
    /\ \E var \in crossword.variables :
          domains[var] # LastCall.before[var] /\ domains[var] # {}

ArcConsistent(cw, d) ==
    \A x, y \in cw.variables :
        (x # y /\ Overlap(x, y) # None) =>
            \A w \in d[x] : \E u \in d[y] : Agree(x, w, y, u)

\* C6: when the full ac3() run of solve(), started on node-consistent
\* domains, returns True, every word of every domain has a word in each
\* neighbor's domain that agrees with it on the shared cell.
ArcConsistency ==
    (pc = "ac3_ret" /\ stack = << >> /\ ac3_ret = Some(TRUE)) =>
        ArcConsistent(crossword, domains)

\* the full ac3() returned True after it had removed words and put arcs back
\* into the queue
ArcConsistencyWitness ==
    /\ pc = "ac3_ret"
    /\ stack = << >>
    /\ ac3_ret = Some(TRUE)
    /\ ac3_work.requeued > 0

\* C7: when ac3() returns True, no domain is empty.
Ac3TrueNoEmptyDomain ==
    (pc = "ac3_ret" /\ ac3_ret = Some(TRUE)) =>
        \A var \in crossword.variables : domains[var] # {}

\* C8: a second revise(x, y) right after a first one, on node-consistent
\* domains, returns False and leaves the domains as the first call left them.
ReviseIdempotent ==
    ( /\ Len(calls) = 2
      /\ calls[1].op = "revise"
      /\ LastCall.op = "revise"
      /\ calls[1].args = LastCall.args
      /\ LastCall.ret # None
      /\ NodeConsistent(LastCall.before) ) =>
        /\ LastCall.ret = Some(FALSE)
        /\ domains = LastCall.before

\* revise(x, y) was called again after a call that had removed words of
\* domain(x) and left some
ReviseIdempotentWitness ==
    /\ Len(calls) = 2
    /\ calls[1].op = "revise"
    /\ calls[1].ret = Some(TRUE)
    /\ LastCall.op = "revise"
    /\ calls[1].args = LastCall.args
    /\ LastCall.ret # None
    /\ NodeConsistent(LastCall.before)
    /\ domains[LastCall.args[1]] # {}

Degree(cw, var) == Cardinality(Neighbors(cw, var))

MaxDegree(cw) == Max({0} \cup {Degree(cw, var) : var \in cw.variables})

NumArcs(cw) == Cardinality(Arcs(cw))

\* C9 as stated: the ac3 loop stops, as the number of arcs put back into the
\* queue during one ac3 call is at most the total size of the domains, and
\* the turns taken are the arcs the queue started with plus the arcs put
\* back, less the arcs still queued.
Ac3RequeuesBounded ==
    pc \in {"ac3", "ac3_ret"} =>
        /\ ac3_work.requeued <= ac3_work.size
        /\ ac3_work.turns + Len(queue) = ac3_work.seeded + ac3_work.requeued

\* C9 amended: the ac3 loop stops: every revise call that returned True
\* removed a word, so there are at most as many as the total size of the
\* domains, each puts back at most (largest number of neighbors - 1) arcs,
\* and the turns taken are the arcs the queue started with plus the arcs put
\* back, less the arcs still queued.
Ac3Terminates ==
    pc \in {"ac3", "ac3_ret"} =>
        /\ ac3_work.revisions <= ac3_work.size - TotalSize(domains)
        /\ ac3_work.requeued <=
              ac3_work.revisions * Max({0, MaxDegree(crossword) - 1})
        /\ ac3_work.turns + Len(queue) = ac3_work.seeded + ac3_work.requeued

\* an ac3 call returned after it had put more arcs back into the queue than
\* there were words in the domains
Ac3TerminatesWitness ==
    /\ pc = "ac3_ret"
    /\ ac3_work.requeued > ac3_work.size
    /\ ac3_work.turns = ac3_work.seeded + ac3_work.requeued

\* bounds on the steps of a run, from the numbers of variables, words and arcs
Ac3Steps(cw) ==
    NumArcs(cw)
        + Cardinality(cw.variables) * Cardinality(cw.words) * MaxDegree(cw) + 1

BacktrackCalls(cw) == (Cardinality(cw.words) + 1) ^ Cardinality(cw.variables)

StepBound(cw) ==
    4 + Ac3Steps(cw)
      + BacktrackCalls(cw) * (2 + Cardinality(cw.words) * (3 + Ac3Steps(cw)))

\* every position before the return of solve() has what its next step needs
CanStep ==
    /\ pc \in {"solve", "ac3_full", "ac3", "ac3_ret", "backtrack", "loop",
               "return", "done"}
    /\ pc = "ac3_ret" => ac3_ret # None
    /\ (pc = "ac3_ret" /\ stack # << >>) =>
          Top.values # << >> /\ Top.saved_domains # None
    /\ (pc = "backtrack" /\ ~assignment_complete(crossword, assignment)) =>
          /\ unassigned_vars(crossword, assignment) # {}
          /\ select_unassigned_variable(crossword, assignment, domains) # {}
          /\ \A var \in select_unassigned_variable(crossword, assignment,
                                                    domains) :
                order_domain_values(crossword, var, assignment, domains) # {}
    /\ pc = "loop" =>
          /\ stack # << >>
          /\ Top.values # << >> =>
                consistent(crossword, Put(Top.assignment, Top.var,
                                          Head(Top.values))) # {}
    /\ (pc = "return" /\ stack # << >> /\ ~Truthy(result)) =>
          Top.values # << >> /\ Top.saved_domains # None

\* C10: solve() always terminates and ends by returning None or an
\* assignment: no step raises, every position before the return has a next
\* step, and the number of steps is bounded.
SolveTerminates ==
    /\ pc # "raised"
    /\ CanStep
    /\ steps <= StepBound(crossword)
    /\ pc = "done" => (result = None \/ \E asg \in result : result = Some(asg))

\* solve() returned None after a search over non-empty domains
SolveTerminatesWitness ==
    /\ pc = "done"
    /\ result = None
    /\ \A var \in crossword.variables : TheValue(preprocessed)[var] # {}
    /\ Cardinality(crossword.variables) > 1

\* C11: a revise(x, y) call that returns, for x and y that overlap at letter
\* i of x and letter j of y, leaves in domain(x) exactly the words w it held
\* for which some word u of domain(y) has w[i] = u[j] (none when domain(y)
\* is empty), and returns True exactly when it removed a word.
ReviseExact ==
    ( /\ calls # << >>
      /\ LastCall.op = "revise"
      /\ LastCall.ret # None
      /\ Overlap(LastCall.args[1], LastCall.args[2]) # None ) =>
        LET x == LastCall.args[1]
            y == LastCall.args[2]
            i == TheValue(Overlap(x, y))[1]
            j == TheValue(Overlap(x, y))[2]
            before == LastCall.before
        IN  /\ domains[x] =
                  {w \in before[x] :
                      \E u \in before[y] :
                          /\ InRange(w, i) /\ InRange(u, j)
                          /\ Letter(w, i) = Letter(u, j)}
            /\ before[y] = {} => domains[x] = {}
            /\ (LastCall.ret = Some(TRUE)) <=> (domains[x] # before[x])

\* revise(x, y), for an overlap at two different indices, removed a word of
\* domain(x) and kept another
ReviseExactWitness ==
    /\ calls # << >>
    /\ LastCall.op = "revise"
    /\ LastCall.ret = Some(TRUE)
    /\ Overlap(LastCall.args[1], LastCall.args[2]) # None
    /\ TheValue(Overlap(LastCall.args[1], LastCall.args[2]))[1]
          # TheValue(Overlap(LastCall.args[1], LastCall.args[2]))[2]
    /\ domains[LastCall.args[1]] # {}
    /\ domains[LastCall.args[1]] # LastCall.before[LastCall.args[1]]

\* C12: a revise(x, y) call that returns leaves the domain of every variable
\* but x as it was, and for x and y that do not overlap it leaves every
\* domain as it was and returns False.
ReviseFrame ==
    (calls # << >> /\ LastCall.op = "revise" /\ LastCall.ret # None) =>
        LET x == LastCall.args[1]
            y == LastCall.args[2]
        IN  /\ \A var \in crossword.variables \ {x} :
                  domains[var] = LastCall.before[var]
            /\ Overlap(x, y) = None =>
                  /\ domains = LastCall.before
                  /\ LastCall.ret = Some(FALSE)

\* a revise call on two slots that do not overlap, and after it a revise
\* call that removed a word of domain(x) while the other two domains held
\* words
ReviseFrameWitness ==
    /\ Len(calls) = 2
    /\ calls[1].op = "revise"
    /\ Overlap(calls[1].args[1], calls[1].args[2]) = None
    /\ calls[1].ret = Some(FALSE)
    /\ LastCall.op = "revise"
    /\ LastCall.ret = Some(TRUE)
    /\ \A var \in crossword.variables \ {LastCall.args[1]} : domains[var] # {}

\* C13: consistent(assignment) returns True exactly when no word is given to
\* two variables, every word has the length of its variable and every two
\* assigned variables that overlap agree on the shared letter; variables
\* that are not assigned count for nothing, and the call changes neither the
\* assignment nor the domains.
ConsistentExact ==
    (calls # << >> /\ LastCall.op = "consistent") =>
        /\ (LastCall.ret = Some("True"))
              <=> IsConsistent(crossword, LastCall.args[1])
        /\ assignment = LastCall.args[1]
        /\ domains = LastCall.before

\* consistent returned True for two overlapping slots of a grid of three
\* slots, the third one unassigned
ConsistentExactWitness ==
    /\ calls # << >>
    /\ LastCall.op = "consistent"
    /\ LastCall.ret = Some("True")
    /\ Cardinality(crossword.variables) = 3
    /\ Len(assignment) = 2
    /\ Overlap(assignment[1][1], assignment[2][1]) # None

\* C14 (rollback): at the head of the loop of every backtrack call, before
\* each candidate value and before the failure value is returned, the
\* domains are the domains the call was entered with; every snapshot a call
\* holds is of those domains; and when backtrack(dict()) has returned the
\* failure value the domains are those solve() passed to it.
Rollback ==
    /\ pc = "loop" => domains = Top.entry_domains
    /\ \A n \in 1..Len(stack) :
          stack[n].saved_domains # None =>
              stack[n].saved_domains = Some(stack[n].entry_domains)
    /\ (pc \in {"return", "done"} /\ stack = << >> /\ result = None) =>
          domains = TheValue(preprocessed)

\* the outermost call is back at the head of its loop after a recursive call
\* under a successful inference pass failed, with a variable of several
\* words whose domain had been forced to one word
RollbackWitness ==
    /\ pc = "loop"
    /\ Len(stack) = 1
    /\ Top.saved_domains # None
    /\ ac3_ret = Some(TRUE)
    /\ result = None
    /\ Cardinality(domains[Top.var]) > 1
    /\ \E var \in crossword.variables \ {Top.var} :
          Cardinality(domains[var]) > 1

\* C15: when the domains were arc consistent as a backtrack call was
\* entered, they are arc consistent again, for every ordered pair of
\* neighbors of the grid, as the call below it is entered after forcing
\* domain(var) to one value and a successful ac3 on the arcs (neighbor, var)
\* only; so when the domains solve() passed to backtrack were arc consistent
\* (as they are when the full ac3 returned True), they are at every call of
\* backtrack.
RestrictedInferenceSuffices ==
    pc = "backtrack" =>
        /\ (stack # << >> /\ ArcConsistent(crossword, Top.entry_domains)) =>
              ArcConsistent(crossword, domains)
        /\ ArcConsistent(crossword, TheValue(preprocessed)) =>
              ArcConsistent(crossword, domains)

\* backtrack is entered below a call that was entered on arc-consistent
\* domains, after an inference pass that removed words of two domains and
\* put an arc back into the queue
RestrictedInferenceWitness ==
    /\ pc = "backtrack"
    /\ stack # << >>
    /\ ArcConsistent(crossword, Top.entry_domains)
    /\ ac3_work.requeued > 0
    /\ ac3_work.revisions > 1

\* C16: for an incomplete assignment, select_unassigned_variable returns a
\* variable that is not assigned, whose domain is no larger than that of any
\* unassigned variable, and that has at least as many neighbors as every
\* unassigned variable with a domain of the same size.
SelectMrvDegree ==
    (calls # << >> /\ LastCall.op = "select_unassigned_variable") =>
        LET var == TheValue(LastCall.ret)
            unassigned == crossword.variables \ Keys(LastCall.args[1])
        IN  /\ var \in unassigned
            /\ \A v \in unassigned :
                  Cardinality(domains[var]) <= Cardinality(domains[v])
            /\ \A v \in unassigned :
                  Cardinality(domains[v]) = Cardinality(domains[var]) =>
                      Degree(crossword, v) <= Degree(crossword, var)

\* the variable returned was chosen by its degree among variables with
\* domains of the smallest size, another variable having a larger domain
\* and another being assigned
SelectMrvDegreeWitness ==
    /\ calls # << >>
    /\ LastCall.op = "select_unassigned_variable"
    /\ \E v \in crossword.variables \ Keys(assignment) :
          /\ Cardinality(domains[v]) = Cardinality(domains[TheValue(LastCall.ret)])
          /\ Degree(crossword, v) < Degree(crossword, TheValue(LastCall.ret))
    /\ \E v \in crossword.variables \ Keys(assignment) :
          Cardinality(domains[v]) > Cardinality(domains[TheValue(LastCall.ret)])

\* the conflict score of a word of domain(var): the pairs of an unassigned
\* neighbor and a word of its domain that differs at the shared letter
Score(cw, var, asg, d, word) ==
    Cardinality(
        {pair \in (Neighbors(cw, var) \ Keys(asg)) \X cw.words :
            /\ pair[2] \in d[pair[1]]
            /\ Letter(word, TheValue(Overlap(var, pair[1]))[1])
                  # Letter(pair[2], TheValue(Overlap(var, pair[1]))[2])})

\* C17: order_domain_values(var, assignment) returns every word of
\* domain(var) once, in non-decreasing order of the conflict score, which
\* counts over the unassigned neighbors only, and changes no domain.
OrderedByConflicts ==
    (calls # << >> /\ LastCall.op = "order_domain_values"
        /\ LastCall.ret # None) =>
        LET var == LastCall.args[1]
            asg == LastCall.args[2]
            values == TheValue(LastCall.ret)
        IN  /\ Range(values) = domains[var]
            /\ Len(values) = Cardinality(domains[var])
            /\ \A m, n \in 1..Len(values) :
                  m < n => Score(crossword, var, asg, domains, values[m])
                              <= Score(crossword, var, asg, domains, values[n])
            /\ domains = LastCall.before

\* the words returned have different scores, and the variable has an
\* unassigned neighbor and an assigned neighbor whose domain holds a word
\* that differs from the first word returned
OrderedByConflictsWitness ==
    /\ calls # << >>
    /\ LastCall.op = "order_domain_values"
    /\ LastCall.ret # None
    /\ Len(TheValue(LastCall.ret)) >= 2
    /\ Score(crossword, LastCall.args[1], assignment, domains,
             TheValue(LastCall.ret)[1])
          < Score(crossword, LastCall.args[1], assignment, domains,
                  TheValue(LastCall.ret)[2])
    /\ Neighbors(crossword, LastCall.args[1]) \ Keys(assignment) # {}
    /\ Score(crossword, LastCall.args[1], EmptyAssignment, domains,
             TheValue(LastCall.ret)[1])
          > Score(crossword, LastCall.args[1], assignment, domains,
                  TheValue(LastCall.ret)[1])

\* C18 (first solution wins): once a backtrack call has returned an
\* assignment, it is complete and every step that follows passes the same
\* assignment up by one call, or out of solve(): no candidate value is
\* tried, no ac3 pass runs and the domains are not restored.
FirstSolutionWins ==
    [][ (pc = "return" /\ result # None) =>
            /\ IsComplete(crossword, TheValue(result))
            /\ result' = result
            /\ domains' = domains
            /\ queue' = queue
            /\ ac3_work' = ac3_work
            /\ IF stack = << >>
               THEN pc' = "done" /\ stack' = stack
               ELSE pc' = "return" /\ stack' = Pop ]_vars

\* an assignment is being returned through two calls of which one has
\* candidate values left that it has not tried
FirstSolutionWinsWitness ==
    /\ pc = "return"
    /\ result # None
    /\ Len(stack) = 2
    /\ \E n \in 1..Len(stack) : Len(stack[n].values) >= 2
    /\ domains # TheValue(preprocessed)

\* the assignment a call passes to the call below it
Extended(frame) ==
    Append(frame.assignment, <<frame.var, Head(frame.values)>>)

\* the assignment has n entries, for n different variables of the grid
DepthIs(asg, n) ==
    /\ Len(asg) = n
    /\ Cardinality(Keys(asg)) = n
    /\ Keys(asg) \subseteq crossword.variables

\* C19 (search depth): the call at recursion depth d was passed an
\* assignment of exactly d entries, for d different variables of the grid,
\* which is its caller's assignment and one entry for a variable that was
\* not in it; the depth is at most the number of variables; and no step
\* changes the assignment of a call that stays active.
SearchDepth ==
    /\ [](/\ Len(stack) <= Cardinality(crossword.variables)
          /\ \A n \in 1..Len(stack) :
                /\ DepthIs(stack[n].assignment, n - 1)
                /\ stack[n].var \in crossword.variables
                /\ stack[n].var \notin Keys(stack[n].assignment)
                /\ n > 1 => stack[n].assignment = Extended(stack[n - 1])
          /\ pc = "backtrack" =>
                /\ DepthIs(assignment, Len(stack))
                /\ stack # << >> => assignment = Extended(Top))
    /\ [][\A n \in 1..Len(stack) :
              n <= Len(stack') => stack'[n].assignment = stack[n].assignment]_vars

\* backtrack is entered at a depth that is the number of variables, three,
\* with a complete assignment
SearchDepthWitness ==
    /\ pc = "backtrack"
    /\ Len(stack) = 3
    /\ Len(assignment) = Cardinality(crossword.variables)

\* C20: at every call of backtrack each variable of the assignment has as
\* its domain the set of its assigned word alone, and when backtrack has
\* returned an assignment the domain of every variable is the set of the
\* word the assignment gives it.
AssignedSingleton ==
    /\ pc = "backtrack" =>
          \A n \in 1..Len(assignment) :
              domains[assignment[n][1]] = {assignment[n][2]}
    /\ (pc \in {"return", "done"} /\ result # None) =>
          /\ Keys(TheValue(result)) = crossword.variables
          /\ \A var \in crossword.variables :
                domains[var] = {ValueOf(TheValue(result), var)}

\* solve() returned an assignment of three slots, of which the one assigned
\* first had several words when the search began and a neighbor assigned
\* after it
AssignedSingletonWitness ==
    /\ pc = "done"
    /\ result # None
    /\ Len(TheValue(result)) = 3
    /\ Cardinality(TheValue(preprocessed)[TheValue(result)[1][1]]) > 1
    /\ Neighbors(crossword, TheValue(result)[1][1]) # {}

====
